---- MODULE Spec2Model ----
(***************************************************************************)
(* Termibbl server: the room actor (ServerState::run and its handlers),    *)
(* the per-connection tasks (handle_connection and its send_thread) and    *)
(* the bounded channels between them, from src/src/server/server.rs.       *)
(* SkribblState (super::skribbl) is not part of the source tree; its       *)
(* operations are modelled from the specification's section 4.1.           *)
(***************************************************************************)
EXTENDS Integers, Sequences, FiniteSets, TLC

\* ------------------------------------------------------------------ bounds
MaxScore == 1       \* a player holding this score types nothing that could raise it
MaxLines == 1       \* no line is drawn once the history holds this many
MaxClock == 3       \* the wall clock stops after this many of its longest steps

\* ------------------------------------------------------- program constants
ROUND_DURATION == 120
EVENT_QUEUE_CAP == 1
SESSION_CHAN_CAP == 1

\* the connections the listener may accept, numbered in the order of accept
Conns == {1, 2, 3}
Names == <<"a", "b", "c">>
NameSet == {Names[i] : i \in 1..Len(Names)}
\* usernames are interchangeable: connection c picks among the first c names
NameChoices(c) == {Names[i] : i \in 1..c}
NameIndex(u) == CHOOSE i \in 1..Len(Names) : Names[i] = u

\* strings are sequences of code points
WordList == << <<65, 98>>, <<99, 100>> >>             \* "Ab", "cd"
Texts == { <<97, 66>>, <<99, 100>> }                   \* "aB", "cd"
ClockSteps == {60}
dimensions == <<80, 24>>
TheLine == "line"

VARIABLES
  sessions,     \* ServerState.sessions: username -> connection of the session, 0 if none
  lines,        \* ServerState.lines
  game_state,   \* ServerState.game_state
  words,        \* ServerState.words: "None" or the word list
  evq,          \* the server event channel (srv_event_send / srv_event_recv)
  actor_pc,     \* "idle", "busy" (inside a handler), "send_failed", "panicked"
  ops,          \* what is left of the handler being run
  conn_pc,      \* handle_connection: "off" (never accepted), "init", "running", "done", "failed"
  user_of,      \* the username each connection announced
  pump,         \* send_thread: "none", "run", "stopped" (receiver dropped)
  chan,         \* per-session message channel (session_msg_send / session_msg_recv)
  now,          \* get_time_now()
  sent          \* per connection, what the handler of the last event queued for it

vars == <<sessions, lines, game_state, words, evq, actor_pc, ops, conn_pc,
          user_of, pump, chan, now, sent>>

\* ------------------------------------------------------------ std helpers
to_ascii_lowercase(c) == IF c >= 65 /\ c <= 90 THEN c + 32 ELSE c

eq_ignore_ascii_case_exact(a, b) == a = b

eq_ignore_ascii_case(a, b) ==
  /\ Len(a) = Len(b)
  /\ \A i \in 1..Len(a) : to_ascii_lowercase(a[i]) = to_ascii_lowercase(b[i])

RECURSIVE Perms(_)
Perms(S) ==
  IF S = {} THEN {<<>>}
  ELSE UNION {{<<x>> \o p : p \in Perms(S \ {x})} : x \in S}

\* u64 values as four 16-bit limbs, most significant first
Limb == 256 * 256
ToU64(n) == <<0, 0, n \div Limb, n % Limb>>
IsZeroU64(v) == \A i \in 1..4 : v[i] = 0
RECURSIVE SubLimbs(_, _, _, _)
SubLimbs(a, b, i, borrow) ==
  IF i = 0 THEN <<>>
  ELSE LET d == a[i] - b[i] - borrow
       IN SubLimbs(a, b, i - 1, IF d < 0 THEN 1 ELSE 0) \o <<d % Limb>>
WrappingSubU64(a, b) == SubLimbs(a, b, 4, 0)
\* `as u32`: the low 32 bits, as two limbs
AsU32(v) == <<v[3], v[4]>>

\* ------------------------------------------------- SkribblState (section 4.1)
Players(st) == DOMAIN st.player_states

NewPlayerState == [score |-> 0, has_solved |-> FALSE]

has_solved(st, u) == u \in Players(st) /\ st.player_states[u].has_solved

\* canGuess: not the current drawer and has not already solved this round
can_guess(st, u) == st.drawing_user # u /\ ~has_solved(st, u)

did_all_solve(st) ==
  \A u \in Players(st) : u = st.drawing_user \/ st.player_states[u].has_solved

on_solve(ps) == [ps EXCEPT !.score = @ + 1, !.has_solved = TRUE]

add_player(st, u) ==
  [st EXCEPT !.player_states =
     [v \in Players(st) \cup {u} |-> IF v = u THEN NewPlayerState ELSE st.player_states[v]]]

remove_user(st, u) ==
  [st EXCEPT !.player_states = [v \in Players(st) \ {u} |-> st.player_states[v]]]

\* round-robin over the current members, in the order of Names, starting after
\* the current drawer; the drawer stays when no member is left
NameIndexOr0(u) == IF u \in NameSet THEN NameIndex(u) ELSE 0
NextDrawer(st) ==
  LET n == Len(Names)
      from == NameIndexOr0(st.drawing_user)
      cand == {k \in 1..n : Names[((from + k - 1) % n) + 1] \in Players(st)}
  IN IF cand = {} THEN st.drawing_user
     ELSE Names[((from + (CHOOSE k \in cand : \A j \in cand : k <= j) - 1) % n) + 1]

\* nextTurn: next drawer, a word of the list, solve flags reset, round start = now
next_turn(st, wl) ==
  {[drawing_user |-> NextDrawer(st),
    current_word |-> wl[i],
    player_states |-> [v \in Players(st) |-> [st.player_states[v] EXCEPT !.has_solved = FALSE]],
    round_start_time |-> now] : i \in 1..Len(wl)}

\* the constructor and the rotation have no member to pick in an empty room
NoMemberToPick(users) == users = {}

with_users(users, wl) ==
  {[drawing_user |-> d,
    current_word |-> wl[i],
    player_states |-> [v \in users |-> NewPlayerState],
    round_start_time |-> now] : d \in (IF users = {} THEN {""} ELSE users), i \in 1..Len(wl)}

\* ----------------------------------------------------------- wire messages
Skribbl(st) == [tag |-> "Skribbl", state |-> st]
FreeDraw == [tag |-> "FreeDraw"]
IsSkribbl == game_state.tag = "Skribbl"

SkribblStateChanged(st) == [kind |-> "SkribblStateChanged", state |-> st]
UserMsg(u, t) == [sys |-> FALSE, user |-> u, text |-> t]
SystemMsg(what, arg) == [sys |-> TRUE, what |-> what, arg |-> arg]
NewMessage(m) == [kind |-> "NewMessage", msg |-> m]
NewLine(l) == [kind |-> "NewLine", line |-> l]
ClearCanvas == [kind |-> "ClearCanvas"]
TimeChanged(t) == [kind |-> "TimeChanged", t |-> t]
InitialState(ls, gs) ==
  [kind |-> "InitialState", lines |-> ls, skribbl_state |-> gs, dimensions |-> dimensions]

\* the steps of a handler, in program order
Bcast(m) == [op |-> "bcast", msg |-> m]
SendTo(c, m) == [op |-> "send", to |-> c, msg |-> m]
ClearLines == [op |-> "clear"]
Insert(c) == [op |-> "insert", c |-> c]

\* what a handler does: the state it leaves before its first broadcast, the
\* steps that follow, whether it panics
Plan(gs, ss, ls, prog) ==
  [gs |-> gs, ss |-> ss, ls |-> ls, prog |-> prog, panic |-> FALSE]
Panic ==
  [gs |-> game_state, ss |-> sessions, ls |-> lines, prog |-> <<>>, panic |-> TRUE]

\* ------------------------------------------------------------- ServerState
Registered == {u \in NameSet : sessions[u] # 0}

\* remove_player: drop the session, then (Skribbl) remove_user, next_turn when
\* the removed user was drawing, broadcast the state
\* (line 124 builds the future of UserSession::close and drops it unpolled:
\* nothing is sent on the close channel, the session's senders are dropped)
RotateOnRemove(st, username) == st.drawing_user = username

remove_player(username) ==
  LET ss == [u \in NameSet |-> IF u = username THEN 0 ELSE sessions[u]]
  IN IF IsSkribbl
     THEN LET st1 == remove_user(game_state.state, username)
          IN IF RotateOnRemove(st1, username)
             THEN {Plan(Skribbl(st2), ss, lines, <<Bcast(SkribblStateChanged(st2))>>)
                     : st2 \in next_turn(st1, words)}
                  \cup (IF NoMemberToPick(Players(st1)) THEN {Panic} ELSE {})
             ELSE {Plan(Skribbl(st1), ss, lines, <<Bcast(SkribblStateChanged(st1))>>)}
     ELSE {Plan(game_state, ss, lines, <<>>)}

on_command_msg_ends_game(username, msg) ==
  {Plan(FreeDraw, [u \in NameSet |-> IF u = msg.kicked_player THEN 0 ELSE sessions[u]],
        lines, <<>>)}

on_command_msg(username, msg) == remove_player(msg.kicked_player)

\* line 155: the guess is evaluated only for a known player
IsSolveNoCanGuess(st, username, text) ==
  /\ username \in Players(st)
  /\ eq_ignore_ascii_case(text, st.current_word)

IsSolve(st, username, text) ==
  /\ username \in Players(st)
  /\ can_guess(st, username)
  /\ eq_ignore_ascii_case(text, st.current_word)

\* lines 160-162: rotate when the solve completed the round
RotateOnSolveAlways(st) == TRUE

RotateOnSolve(st) == did_all_solve(st)

\* lines 190-192: the chat message is relayed unless it was a solve
Relay(did_solve, msg) == IF did_solve THEN <<>> ELSE <<Bcast(NewMessage(msg))>>

on_new_message(username, msg) ==
  IF IsSkribbl
  THEN LET st == game_state.state
       IN IF IsSolve(st, username, msg.text)
          THEN LET st1 == [st EXCEPT !.player_states[username] = on_solve(@)]
                   all_solved == RotateOnSolve(st1)
                   old_word == st.current_word
                   after == IF all_solved THEN next_turn(st1, words) ELSE {st1}
               IN {Plan(Skribbl(st2), sessions, lines,
                        <<Bcast(SkribblStateChanged(st2)),
                          Bcast(NewMessage(SystemMsg("guessed it", username)))>>
                        \o (IF all_solved
                            THEN <<ClearLines, Bcast(ClearCanvas),
                                   Bcast(NewMessage(SystemMsg("the word was", old_word)))>>
                            ELSE <<>>)
                        \o Relay(TRUE, msg)) : st2 \in after}
          ELSE {Plan(game_state, sessions, lines, Relay(FALSE, msg))}
  ELSE IF words # "None"
       THEN {Plan(Skribbl(st), sessions, lines,
                  <<Bcast(SkribblStateChanged(st))>> \o Relay(FALSE, msg))
               : st \in with_users(Registered, words)}
            \cup (IF NoMemberToPick(Registered) THEN {Panic} ELSE {})
       ELSE {Plan(game_state, sessions, lines, Relay(FALSE, msg))}

on_to_srv_msg_no_history(username, msg) ==
  CASE msg.k = "CommandMsg" -> on_command_msg(username, msg)
    [] msg.k = "NewMessage" -> on_new_message(username, msg.message)
    [] msg.k = "NewLine" ->
         {Plan(game_state, sessions, lines, <<Bcast(NewLine(msg.line))>>)}
    [] msg.k = "ClearCanvas" ->
         {Plan(game_state, sessions, <<>>, <<Bcast(ClearCanvas)>>)}

on_to_srv_msg(username, msg) ==
  CASE msg.k = "CommandMsg" -> on_command_msg(username, msg)
    [] msg.k = "NewMessage" -> on_new_message(username, msg.message)
    [] msg.k = "NewLine" ->
         {Plan(game_state, sessions, Append(lines, msg.line), <<Bcast(NewLine(msg.line))>>)}
    [] msg.k = "ClearCanvas" ->
         {Plan(game_state, sessions, <<>>, <<Bcast(ClearCanvas)>>)}

\* on_tick: ROUND_DURATION - elapsed_time is a u64 subtraction: with
\* elapsed_time > ROUND_DURATION a build with overflow checks panics and a
\* build without them wraps
on_tick ==
  IF IsSkribbl
  THEN LET st == game_state.state
           elapsed_time == now - st.round_start_time
           remaining_time == WrappingSubU64(ToU64(ROUND_DURATION), ToU64(elapsed_time))
           timemsg == <<Bcast(TimeChanged(AsU32(remaining_time)))>>
       IN (IF elapsed_time > ROUND_DURATION THEN {Panic} ELSE {})
          \cup
          (IF IsZeroU64(remaining_time)
           THEN {Plan(Skribbl(st2), sessions, lines,
                      <<Bcast(SkribblStateChanged(st2)), ClearLines, Bcast(ClearCanvas),
                        Bcast(NewMessage(SystemMsg("the word was", st.current_word)))>>
                      \o timemsg) : st2 \in next_turn(st, words)}
           ELSE {Plan(game_state, sessions, lines, timemsg)})
  ELSE {Plan(game_state, sessions, lines, <<>>)}

\* on_user_joined: (Skribbl) add_player and two broadcasts, then InitialState to
\* the new session, then the insert into the registry
JoinStepsNoInsert(c, gs) ==
  <<SendTo(c, InitialState(lines, IF gs.tag = "Skribbl" THEN gs.state ELSE "None"))>>

JoinSteps(c, gs) ==
  <<SendTo(c, InitialState(lines, IF gs.tag = "Skribbl" THEN gs.state ELSE "None")),
    Insert(c)>>

on_user_joined_registers_first(c) ==
  IF IsSkribbl
  THEN LET st == add_player(game_state.state, user_of[c])
       IN {Plan(Skribbl(st), [sessions EXCEPT ![user_of[c]] = c], lines,
                <<Bcast(SkribblStateChanged(st)),
                  Bcast(NewMessage(SystemMsg("joined", user_of[c]))),
                  SendTo(c, InitialState(lines, st))>>)}
  ELSE {Plan(game_state, sessions, lines, JoinSteps(c, game_state))}

on_user_joined(c) ==
  IF IsSkribbl
  THEN LET st == add_player(game_state.state, user_of[c])
       IN {Plan(Skribbl(st), sessions, lines,
                <<Bcast(SkribblStateChanged(st)),
                  Bcast(NewMessage(SystemMsg("joined", user_of[c])))>>
                \o JoinSteps(c, Skribbl(st)))}
  ELSE {Plan(game_state, sessions, lines, JoinSteps(c, game_state))}

\* run: the match on the received event
Handle(evt) ==
  CASE evt.type = "ToServerMsg" -> on_to_srv_msg(evt.name, evt.msg)
    [] evt.type = "UserJoined" -> on_user_joined(evt.c)
    [] evt.type = "UserLeft" -> remove_player(evt.name)
    [] evt.type = "Tick" -> on_tick

\* broadcast: one send per registered session, in the map's iteration order
RECURSIVE Expand(_, _, _)
Expand(prog, order, b) ==
  IF prog = <<>> THEN <<>>
  ELSE LET h == Head(prog)
       IN (IF h.op = "bcast"
           THEN [i \in 1..Len(order) |-> [op |-> "send", to |-> order[i], msg |-> h.msg, b |-> b]]
           ELSE IF h.op = "send"
           THEN <<[op |-> "send", to |-> h.to, msg |-> h.msg, b |-> b]>>
           ELSE <<h>>)
          \o Expand(Tail(prog), order, b + 1)

\* the steps that do not await run with the step before them
RECURSIVE Settle(_, _, _)
Settle(o, ls, ss) ==
  IF o = <<>> \/ Head(o).op = "send" THEN [ops |-> o, lines |-> ls, sessions |-> ss]
  ELSE IF Head(o).op = "clear" THEN Settle(Tail(o), <<>>, ss)
  ELSE Settle(Tail(o), ls,
              [u \in NameSet |-> IF u = user_of[Head(o).c] THEN Head(o).c ELSE ss[u]])

ActorAlive == actor_pc \in {"idle", "busy"}

\* a UserSession lives in its UserJoined event, in on_user_joined, then in the registry
SessAlive(c) ==
  /\ ActorAlive
  /\ \/ \E i \in 1..Len(evq) : evq[i].type = "UserJoined" /\ evq[i].c = c
     \/ \E i \in 1..Len(ops) : ops[i].op = "insert" /\ ops[i].c = c
     \/ \E u \in NameSet : sessions[u] = c

\* ------------------------------------------------------------------- Init
InitWith(accepted, wordlists) ==
  /\ sessions = [u \in NameSet |-> 0]
  /\ lines = <<>>
  /\ game_state = FreeDraw
  /\ words \in wordlists
  /\ evq = <<>>
  /\ actor_pc = "idle"
  /\ ops = <<>>
  /\ conn_pc = [c \in Conns |-> IF c \in accepted THEN "init" ELSE "off"]
  /\ user_of = [c \in Conns |-> ""]
  /\ pump = [c \in Conns |-> "none"]
  /\ chan = [c \in Conns |-> <<>>]
  /\ now = 0
  /\ sent = [c \in Conns |-> <<>>]

\* run_server: FreeDraw, no session, the word file given or not; two clients
Init == InitWith({1, 2}, {"None", WordList})

\* ------------------------------------------------------ handle_connection
CanEnqueue == ActorAlive /\ Len(evq) < EVENT_QUEUE_CAP

\* lines 349-356 and 361: the channels, the UserJoined event, the send_thread
Connect(c, u) ==
  /\ conn_pc[c] = "init"
  /\ \A d \in Conns : d < c => conn_pc[d] # "init"
  /\ CanEnqueue
  /\ user_of' = [user_of EXCEPT ![c] = u]
  /\ evq' = Append(evq, [type |-> "UserJoined", c |-> c])
  /\ conn_pc' = [conn_pc EXCEPT ![c] = "running"]
  /\ pump' = [pump EXCEPT ![c] = "run"]
  /\ UNCHANGED <<sessions, lines, game_state, words, actor_pc, ops, chan, now,
                 sent>>

ScoreRoom(u) ==
  \/ ~IsSkribbl
  \/ u \notin Players(game_state.state)
  \/ game_state.state.player_states[u].score < MaxScore
  \/ ~can_guess(game_state.state, u)

ChatMsgs(c) ==
  IF ScoreRoom(user_of[c])
  THEN {[k |-> "NewMessage", message |-> UserMsg(user_of[c], t)] : t \in Texts}
  ELSE {}

LineMsgs(c) == IF Len(lines) < MaxLines THEN {[k |-> "NewLine", line |-> TheLine]} ELSE {}

ClientMsgs(c) ==
  ChatMsgs(c)
  \cup LineMsgs(c)
  \cup {[k |-> "ClearCanvas"]}
  \cup {[k |-> "CommandMsg", kicked_player |-> u] : u \in NameSet}

\* lines 395-401: a frame of the client becomes a ToServerMsg event
ClientSend(c, m) ==
  /\ conn_pc[c] = "running"
  /\ CanEnqueue
  /\ evq' = Append(evq, [type |-> "ToServerMsg", name |-> user_of[c], msg |-> m])
  /\ UNCHANGED <<sessions, lines, game_state, words, actor_pc, ops, conn_pc, user_of,
                 pump, chan, now, sent>>

\* line 392: the delay fired
ClientTick(c) ==
  /\ conn_pc[c] = "running"
  /\ CanEnqueue
  /\ evq' = Append(evq, [type |-> "Tick"])
  /\ UNCHANGED <<sessions, lines, game_state, words, actor_pc, ops, conn_pc, user_of,
                 pump, chan, now, sent>>

\* lines 402-417: the client closed or its stream failed; UserLeft follows
Disconnect(c) ==
  /\ conn_pc[c] = "running"
  /\ CanEnqueue
  /\ evq' = Append(evq, [type |-> "UserLeft", name |-> user_of[c]])
  /\ conn_pc' = [conn_pc EXCEPT ![c] = "done"]
  /\ UNCHANGED <<sessions, lines, game_state, words, actor_pc, ops, user_of,
                 pump, chan, now, sent>>

\* srv_event_send.send(..).await? with the receiver gone
ConnFail(c) ==
  /\ conn_pc[c] = "running"
  /\ ~ActorAlive
  /\ conn_pc' = [conn_pc EXCEPT ![c] = "failed"]
  /\ UNCHANGED <<sessions, lines, game_state, words, evq, actor_pc, ops, user_of,
                 pump, chan, now, sent>>

\* ------------------------------------------------------------ send_thread
\* lines 364-371: a message forwarded to the socket
PumpForward(c) ==
  /\ pump[c] = "run"
  /\ chan[c] # <<>>
  /\ chan' = [chan EXCEPT ![c] = Tail(@)]
  /\ UNCHANGED <<sessions, lines, game_state, words, evq, actor_pc, ops, conn_pc,
                 user_of, pump, now, sent>>

\* lines 367-370: the socket write failed; the task ends and drops the receiver
PumpWsError(c) ==
  /\ pump[c] = "run"
  /\ chan[c] # <<>>
  /\ chan' = [chan EXCEPT ![c] = <<>>]
  /\ pump' = [pump EXCEPT ![c] = "stopped"]
  /\ UNCHANGED <<sessions, lines, game_state, words, evq, actor_pc, ops, conn_pc,
                 user_of, now, sent>>

\* lines 373-381: every sender is gone (the session was dropped)
PumpClosed(c) ==
  /\ pump[c] = "run"
  /\ ~SessAlive(c)
  /\ chan' = [chan EXCEPT ![c] = <<>>]
  /\ pump' = [pump EXCEPT ![c] = "stopped"]
  /\ UNCHANGED <<sessions, lines, game_state, words, evq, actor_pc, ops, conn_pc,
                 user_of, now, sent>>

\* -------------------------------------------------------- ServerState::run
Targets(plan) == {plan.ss[u] : u \in NameSet} \ {0}
NoneSent == [c \in Conns |-> <<>>]

\* lines 289-297: receive an event and run its handler up to its first await
ActorRecv ==
  /\ actor_pc = "idle"
  /\ evq # <<>>
  /\ \E plan \in Handle(Head(evq)) :
       /\ evq' = IF plan.panic THEN <<>> ELSE Tail(evq)
       /\ sent' = NoneSent
       /\ IF plan.panic
          THEN /\ actor_pc' = "panicked"
               /\ UNCHANGED <<sessions, lines, game_state, ops>>
          ELSE \E order \in Perms(Targets(plan)) :
                 LET r == Settle(Expand(plan.prog, order, 1), plan.ls, plan.ss)
                 IN /\ game_state' = plan.gs
                    /\ sessions' = r.sessions
                    /\ lines' = r.lines
                    /\ ops' = r.ops
                    /\ actor_pc' = IF r.ops = <<>> THEN "idle" ELSE "busy"
  /\ UNCHANGED <<words, conn_pc, user_of, pump, chan, now>>

\* UserSession::send, the channel has room: the message is queued
ActorSend ==
  /\ actor_pc = "busy"
  /\ LET c == Head(ops).to
         r == Settle(Tail(ops), lines, sessions)
     IN /\ pump[c] = "run"
        /\ Len(chan[c]) < SESSION_CHAN_CAP
        /\ chan' = [chan EXCEPT ![c] = Append(@, Head(ops).msg)]
        /\ sent' = [sent EXCEPT ![c] = Append(@, Head(ops).msg)]
        /\ sessions' = r.sessions
        /\ lines' = r.lines
        /\ ops' = r.ops
        /\ actor_pc' = IF r.ops = <<>> THEN "idle" ELSE "busy"
  /\ UNCHANGED <<game_state, words, evq, conn_pc, user_of, pump, now>>

\* UserSession::send, the receiver is gone: the error goes up through
\* broadcast, the handler and run (every `?`), and line 319 unwraps it
ActorSendFails ==
  /\ actor_pc = "busy"
  /\ pump[Head(ops).to] = "stopped"
  /\ actor_pc' = "send_failed"
  /\ evq' = <<>>
  /\ UNCHANGED <<sessions, lines, ops, game_state, words, conn_pc, user_of, pump,
                 chan, now, sent>>

\* the whole handler in one step: every channel it sends on has room and is
\* drained by its send_thread as the handler goes
RECURSIVE RunAll(_, _, _, _)
RunAll(o, ls, ss, snt) ==
  IF o = <<>> THEN [lines |-> ls, sessions |-> ss, sent |-> snt]
  ELSE LET h == Head(o)
       IN IF h.op = "send"
          THEN RunAll(Tail(o), ls, ss, [snt EXCEPT ![h.to] = Append(@, h.msg)])
          ELSE IF h.op = "clear" THEN RunAll(Tail(o), <<>>, ss, snt)
          ELSE RunAll(Tail(o), ls,
                      [u \in NameSet |-> IF u = user_of[h.c] THEN h.c ELSE ss[u]], snt)

HandleEvent ==
  /\ actor_pc = "idle"
  /\ evq # <<>>
  /\ \E plan \in Handle(Head(evq)) :
       /\ evq' = IF plan.panic THEN <<>> ELSE Tail(evq)
       /\ IF plan.panic
          THEN /\ actor_pc' = "panicked"
               /\ sent' = NoneSent
               /\ UNCHANGED <<sessions, lines, game_state>>
          ELSE \E order \in Perms(Targets(plan)) :
                 LET o == Expand(plan.prog, order, 1)
                     r == RunAll(o, plan.ls, plan.ss, NoneSent)
                 IN /\ \A i \in 1..Len(o) : o[i].op = "send" => pump[o[i].to] = "run"
                    /\ game_state' = plan.gs
                    /\ sessions' = r.sessions
                    /\ lines' = r.lines
                    /\ sent' = r.sent
                    /\ actor_pc' = "idle"
  /\ UNCHANGED <<words, ops, conn_pc, user_of, pump, chan, now>>

\* get_time_now() moves on; only the time elapsed in a round is ever read
ClockAdvance(d) ==
  /\ IsSkribbl
  /\ ActorAlive
  /\ now + d <= MaxClock * 60
  /\ now' = now + d
  /\ UNCHANGED <<sessions, lines, game_state, words, evq, actor_pc, ops, conn_pc,
                 user_of, pump, chan, sent>>

\* nothing is left for a send_thread to notice: no session was dropped
\* while its send_thread still runs
NoCloseDue == \A c \in Conns : pump[c] = "run" => SessAlive(c)

\* The room with responsive clients: sockets accept what is written to them,
\* so a handler never waits for a channel and runs as one step, and a
\* send_thread sees the close of its session before anything else happens.
Next ==
  \/ \E c \in Conns : \E u \in NameChoices(c) : NoCloseDue /\ Connect(c, u)
  \/ \E c \in Conns : \E m \in ClientMsgs(c) : NoCloseDue /\ ClientSend(c, m)
  \/ \E c \in Conns : NoCloseDue /\ ClientTick(c)
  \/ \E c \in Conns : NoCloseDue /\ Disconnect(c)
  \/ \E d \in ClockSteps : NoCloseDue /\ ClockAdvance(d)
  \/ NoCloseDue /\ HandleEvent
  \/ \E c \in Conns : PumpClosed(c)
  \/ \E c \in Conns : ConnFail(c)

Spec == Init /\ [][Next]_vars

\* A game of three named players with responsive clients: joins, chat, lines
\* and leaves.
InitParty == InitWith({1, 2, 3}, {WordList})

NextParty ==
  \/ \E c \in Conns : NoCloseDue /\ Connect(c, Names[c])
  \/ \E c \in Conns : \E m \in ChatMsgs(c) \cup LineMsgs(c) : NoCloseDue /\ ClientSend(c, m)
  \/ \E c \in Conns : NoCloseDue /\ Disconnect(c)
  \/ NoCloseDue /\ HandleEvent
  \/ \E c \in Conns : PumpClosed(c)

SpecParty == InitParty /\ [][NextParty]_vars

\* The room without a word file under every interleaving of the tasks, with
\* sockets that may fail.
InitNet == InitWith({1, 2}, {"None"})

NextNet ==
  \/ \E c \in Conns : \E u \in NameChoices(c) : Connect(c, u)
  \/ \E c \in Conns : \E m \in ClientMsgs(c) : ClientSend(c, m)
  \/ \E c \in Conns : ClientTick(c)
  \/ \E c \in Conns : Disconnect(c)
  \/ ActorRecv
  \/ ActorSend
  \/ ActorSendFails
  \/ \E c \in Conns : PumpForward(c)
  \/ \E c \in Conns : PumpWsError(c)
  \/ \E c \in Conns : PumpClosed(c)
  \/ \E c \in Conns : ConnFail(c)

SpecNet == InitNet /\ [][NextNet]_vars

\* ----------------------------------------------------------------- claims
RegisteredConns == {sessions[u] : u \in NameSet} \ {0}
InSeq(m, q) == \E i \in 1..Len(q) : q[i] = m

\* C1: a delivery failure to one session never ends the room actor: the actor
\* loop is never left because a send to a session failed.
C1_ActorSurvivesDeliveryFailure == actor_pc # "send_failed"

\* C2: a broadcast is never given up while a registered session whose channel
\* is still open has not been served: a failed send to one session does not
\* prevent delivery to the remaining sessions.
C2_BroadcastServesOpenSessions ==
  ~(/\ actor_pc = "send_failed"
    /\ \E i \in 2..Len(ops) :
         /\ ops[i].op = "send"
         /\ ops[i].b = Head(ops).b
         /\ pump[ops[i].to] = "run")

\* C3: the actor never waits inside a handler for the full queue of a client
\* that is not draining it while the event of another client is waiting.
ActorWaitsOn(c) ==
  /\ actor_pc = "busy"
  /\ Head(ops).to = c
  /\ pump[c] = "run"
  /\ Len(chan[c]) = SESSION_CHAN_CAP

C3_SlowClientNeverStallsRoom ==
  \A c \in Conns :
    ~(/\ ActorWaitsOn(c)
      /\ evq # <<>>
      /\ Head(evq).type = "ToServerMsg"
      /\ Head(evq).name # user_of[c])

\* an event is handled to completion by this step
Handles == actor_pc = "idle" /\ evq # <<>> /\ evq' = Tail(evq) /\ actor_pc' = "idle"
Removes(u) ==
  \/ Head(evq).type = "UserLeft" /\ Head(evq).name = u
  \/ /\ Head(evq).type = "ToServerMsg"
     /\ Head(evq).msg.k = "CommandMsg"
     /\ Head(evq).msg.kicked_player = u

\* C4: each handled UserJoined adds one registered session and each handled
\* leave or kick of a registered name removes one, so that the registry size is
\* the number of joins minus the number of matching leaves.
C4_RegistryCountsJoinsMinusLeaves ==
  [][Handles =>
       Cardinality(Registered') =
         Cardinality(Registered)
         + (IF Head(evq).type = "UserJoined" THEN 1 ELSE 0)
         - (IF \E u \in Registered : Removes(u) THEN 1 ELSE 0)]_vars

\* C5: while a round is in progress no message queued for a session other than
\* the drawer's carries the round's secret word.
CarriesWord(m, st) ==
  \/ /\ m.kind = "SkribblStateChanged"
     /\ m.state.current_word = st.current_word
     /\ m.state.round_start_time = st.round_start_time
  \/ /\ m.kind = "InitialState"
     /\ m.skribbl_state # "None"
     /\ m.skribbl_state.current_word = st.current_word
     /\ m.skribbl_state.round_start_time = st.round_start_time
  \/ /\ m.kind = "NewMessage"
     /\ ~m.msg.sys
     /\ m.msg.text = st.current_word

C5_WordNeverSentToNonDrawer ==
  IsSkribbl =>
    \A c \in Conns : \A i \in 1..Len(sent[c]) :
      CarriesWord(sent[c][i], game_state.state) =>
        user_of[c] = game_state.state.drawing_user

\* the chat event being handled, and the round it meets
Evt == Head(evq)
IsChatEvt == Evt.type = "ToServerMsg" /\ Evt.msg.k = "NewMessage"
Guesser == Evt.name
GuessText == Evt.msg.message.text
St == game_state.state

IsAsciiLetter(c) == (c >= 65 /\ c <= 90) \/ (c >= 97 /\ c <= 122)
SameIgnoringCase(a, b) ==
  /\ Len(a) = Len(b)
  /\ \A i \in 1..Len(a) :
       \/ a[i] = b[i]
       \/ IsAsciiLetter(a[i]) /\ IsAsciiLetter(b[i]) /\ (a[i] - b[i] = 32 \/ b[i] - a[i] = 32)

Eligible(u) ==
  u \in Players(St) /\ u # St.drawing_user /\ ~St.player_states[u].has_solved
OthersSolved(u) ==
  \A v \in Players(St) \ {u, St.drawing_user} : St.player_states[v].has_solved
CorrectGuess ==
  IsChatEvt /\ IsSkribbl /\ Eligible(Guesser) /\ SameIgnoringCase(GuessText, St.current_word)
PlainChatQueued ==
  \E c \in Conns : \E i \in 1..Len(sent[c]) :
    sent[c][i].kind = "NewMessage" /\ ~sent[c][i].msg.sys
GuessedIt(u) == NewMessage(SystemMsg("guessed it", u))
WordWas(w) == NewMessage(SystemMsg("the word was", w))
Count(m, q) == Cardinality({i \in 1..Len(q) : q[i] = m})

C7_DrawerOrSolvedGuessIsPlainChat ==
  [][(/\ Handles
      /\ IsChatEvt
      /\ IsSkribbl
      /\ Guesser \in Players(St)
      /\ (Guesser = St.drawing_user \/ St.player_states[Guesser].has_solved)
      /\ SameIgnoringCase(GuessText, St.current_word)) =>
       /\ game_state' = game_state
       /\ sessions' = sessions
       /\ \A c \in RegisteredConns : sent'[c] = <<NewMessage(Evt.msg.message)>>]_vars

C7_Witness ==
  /\ IsSkribbl
  /\ \E u \in Players(St) : \E c \in Conns : \E i \in 1..Len(sent[c]) :
       /\ St.player_states[u].has_solved
       /\ sent[c][i].kind = "NewMessage"
       /\ ~sent[c][i].msg.sys
       /\ sent[c][i].msg.user = u
       /\ SameIgnoringCase(sent[c][i].msg.text, St.current_word)

\* C8: a chat event rotates the round exactly when it is a correct guess that
\* leaves every player but the drawer solved; the rotation is a single advance
\* of the drawer, empties the line history, and every registered session is
\* sent one new round state, one ClearCanvas and the old word; any other chat
\* event (a later guess of a word that is no longer current included) leaves
\* drawer, word, round start and lines alone.
C8_OneRotationWhenAllSolved ==
  [][(Handles /\ IsChatEvt /\ IsSkribbl) =>
       IF CorrectGuess /\ OthersSolved(Guesser)
       THEN /\ game_state'.state.drawing_user = NextDrawer(St)
            /\ game_state'.state.drawing_user # St.drawing_user
            /\ game_state'.state.round_start_time = now
            /\ \A u \in Players(St) : ~game_state'.state.player_states[u].has_solved
            /\ lines' = <<>>
            /\ \A c \in RegisteredConns :
                 /\ Count(SkribblStateChanged(game_state'.state), sent'[c]) = 1
                 /\ Count(ClearCanvas, sent'[c]) = 1
                 /\ Count(WordWas(St.current_word), sent'[c]) = 1
       ELSE /\ game_state'.state.drawing_user = St.drawing_user
            /\ game_state'.state.current_word = St.current_word
            /\ game_state'.state.round_start_time = St.round_start_time
            /\ lines' = lines
            /\ \A c \in Conns : ~InSeq(ClearCanvas, sent'[c])]_vars

C8_Witness ==
  /\ IsSkribbl
  /\ lines = <<>>
  /\ Cardinality(Players(St)) = 3
  /\ \E c \in RegisteredConns : \E u \in Players(St) : \E i \in 1..Len(WordList) :
       /\ InSeq(GuessedIt(u), sent[c])
       /\ InSeq(ClearCanvas, sent[c])
       /\ InSeq(WordWas(WordList[i]), sent[c])
       /\ St.player_states[u].score >= 1
       /\ ~St.player_states[u].has_solved

DrawerAnnounced(u) ==
  \E c \in Conns : \E i \in 1..Len(sent[c]) :
    sent[c][i].kind = "SkribblStateChanged" /\ sent[c][i].state.drawing_user = u

\* C9: when the handled event removes the current drawer (a leave or a kick),
\* the same event leaves the round with a different drawer who is a player,
\* and no round state naming the removed drawer is sent to any session.
C9_RemovedDrawerIsReplaced ==
  [][(Handles /\ IsSkribbl /\ Removes(St.drawing_user)) =>
       /\ game_state'.state.drawing_user # St.drawing_user
       /\ game_state'.state.drawing_user \in Players(game_state'.state)
       /\ ~DrawerAnnounced(St.drawing_user)']_vars

\* C10: in Skribbl mode the drawer is one of the players after every handled
\* event, the last player's leave and a chat from an unregistered user included.
C10_DrawerIsAPlayer ==
  (IsSkribbl /\ ActorAlive) => St.drawing_user \in Players(St)

\* a Tick is taken from the queue in Skribbl mode
TickTaken ==
  /\ actor_pc = "idle"
  /\ evq # <<>>
  /\ Head(evq).type = "Tick"
  /\ evq' # evq
  /\ IsSkribbl
Elapsed == now - St.round_start_time
TimesSent(c) == {i \in 1..Len(sent[c]) : sent[c][i].kind = "TimeChanged"}

\* C11: a Tick handled in Skribbl mode rotates the round (a new round starting
\* now, every solve flag reset) whenever at least ROUND_DURATION seconds of the
\* round have elapsed, also when more than that have, and leaves the round
\* alone when fewer have.
C11_TickRotatesAtOrAfterDeadline ==
  [][TickTaken =>
       IF Elapsed >= ROUND_DURATION
       THEN /\ actor_pc' = "idle"
            /\ game_state'.state.round_start_time = now
            /\ game_state'.state.drawing_user = NextDrawer(St)
            /\ \A u \in Players(St) : ~game_state'.state.player_states[u].has_solved
       ELSE game_state' = game_state]_vars

\* C12: handling a Tick never fails on the subtraction, and every TimeChanged
\* it sends carries a value in 0..ROUND_DURATION.
C12_TimeChangedInRange ==
  [][TickTaken =>
       /\ actor_pc' = "idle"
       /\ \A c \in Conns : \A i \in TimesSent(c)' :
            sent'[c][i].t[1] = 0 /\ sent'[c][i].t[2] <= ROUND_DURATION]_vars

\* C13: every TimeChanged sent by a Tick carries the remaining time of the
\* round that is current once the Tick is handled: inside a round the time left
\* of it (so the values never grow), after a rotation the full duration of the
\* new round.
C13_TimeChangedIsOfCurrentRound ==
  [][(TickTaken /\ Elapsed <= ROUND_DURATION /\ actor_pc' = "idle") =>
       \A c \in Conns : \A i \in TimesSent(c)' :
         sent'[c][i].t =
           <<0, ROUND_DURATION - (now - game_state'.state.round_start_time)>>]_vars

\* C14: the mode changes only from FreeDraw to Skribbl, only in the handling
\* of a chat message and only with a word list: a Skribbl room stays Skribbl,
\* and a room without a word list stays FreeDraw.
C14_OnlyFreeDrawToSkribblOnChat ==
  [][/\ IsSkribbl => IsSkribbl'
     /\ (~IsSkribbl /\ IsSkribbl') =>
          (actor_pc = "idle" /\ evq # <<>> /\ IsChatEvt /\ words # "None")
     /\ words = "None" => ~IsSkribbl']_vars

C14_Witness ==
  /\ IsSkribbl
  /\ ActorAlive
  /\ Registered = {}
  /\ \E c \in Conns : conn_pc[c] = "done"
  /\ \E c \in Conns : conn_pc[c] = "running"

Joiner == Head(evq).c
Snapshot ==
  InitialState(lines, IF IsSkribbl THEN game_state.state ELSE "None")

\* C15: a handled UserJoined sends the joining session exactly one message,
\* the InitialState with the current lines, dimensions and game state, sends
\* InitialState to no other session, and registers the session; and a session
\* that is not registered receives nothing in any other event, so InitialState
\* is the first message it ever receives.
C15_SnapshotToJoinerOnlyThenRegister ==
  [][Handles =>
       /\ Head(evq).type = "UserJoined" =>
            /\ sent'[Joiner] = <<Snapshot'>>
            /\ Snapshot'.lines = lines
            /\ \A d \in Conns \ {Joiner} : \A i \in 1..Len(sent'[d]) :
                 sent'[d][i].kind # "InitialState"
            /\ sessions'[user_of[Joiner]] = Joiner
            /\ \A u \in NameSet \ {user_of[Joiner]} : sessions'[u] = sessions[u]
       /\ \A c \in Conns \ RegisteredConns :
            sent'[c] # <<>> => (Head(evq).type = "UserJoined" /\ Joiner = c)]_vars

C15_Witness ==
  /\ IsSkribbl
  /\ \E c \in RegisteredConns : \E d \in RegisteredConns \ {c} :
       /\ sent[c] = <<Snapshot>>
       /\ lines # <<>>
       /\ InSeq(NewMessage(SystemMsg("joined", user_of[c])), sent[d])

\* the line list a client rebuilds from the messages it is sent
RECURSIVE Replay(_, _)
Replay(q, ls) ==
  IF q = <<>> THEN ls
  ELSE LET m == Head(q)
       IN Replay(Tail(q),
                 CASE m.kind = "InitialState" -> m.lines
                   [] m.kind = "NewLine" -> Append(ls, m.line)
                   [] m.kind = "ClearCanvas" -> <<>>
                   [] OTHER -> ls)

Rotates ==
  /\ IsSkribbl
  /\ IsSkribbl'
  /\ \/ game_state'.state.drawing_user # St.drawing_user
     \/ game_state'.state.round_start_time # St.round_start_time

\* C17: every handled event that rotates the turn, whatever its cause, leaves
\* the line history empty and sends ClearCanvas to every registered session;
\* and the history is emptied only by a client's ClearCanvas or by a rotation.
C17_RotationClearsCanvas ==
  [][Handles =>
       /\ Rotates =>
            /\ lines' = <<>>
            /\ \A c \in RegisteredConns' : InSeq(ClearCanvas, sent'[c])
       /\ (lines # <<>> /\ lines' = <<>>) =>
            \/ Rotates
            \/ Head(evq).type = "ToServerMsg" /\ Head(evq).msg.k = "ClearCanvas"]_vars

\* a handler's steps include a send on the close channel of connection c
CloseSignalled(plan, c) ==
  \E i \in 1..Len(plan.prog) : plan.prog[i].op = "close" /\ plan.prog[i].c = c

\* C18: whenever a leave or a kick of a registered username is about to be
\* handled, the handler detaches that session from the registry and sends the
\* close signal on its close channel.
C18_RemovalSignalsClose ==
  \A u \in Registered :
    (actor_pc = "idle" /\ evq # <<>> /\ Removes(u)) =>
      \A plan \in Handle(Head(evq)) :
        ~plan.panic => (plan.ss[u] = 0 /\ CloseSignalled(plan, sessions[u]))

\* C19: in Skribbl mode, between events, the usernames of the round's player
\* states are exactly the usernames of the session registry.
C19_PlayersAreTheRegisteredNames ==
  (IsSkribbl /\ actor_pc = "idle") =>
    Players(St) = {u \in NameSet : sessions[u] # 0}

C19_Witness ==
  /\ IsSkribbl
  /\ actor_pc = "idle"
  /\ Cardinality(Players(St)) = 1
  /\ \E c \in Conns : conn_pc[c] = "done"
  /\ \E c \in RegisteredConns :
       /\ sent[c] = <<Snapshot>>
       /\ Players(St) = {user_of[c]}

\* C20: every event a connection task enqueues is received and processed by
\* the actor; stated for the Tick events: a Tick taken from the event queue is
\* handled to its end and leaves the actor running, ready to receive the
\* events that the connection tasks enqueue after it.
C20_EveryTickIsProcessed ==
  [][(actor_pc = "idle" /\ evq # <<>> /\ Head(evq).type = "Tick" /\ evq' # evq) =>
       ActorAlive']_vars

====
